---- MODULE Spec2Model ----
(***************************************************************************)
(* The manifest bundling engine of src/src/compiler/bundle/bundle.ts:      *)
(* getManifestBundles (tag resolution), findPrimaryEncapsulation,          *)
(* validateManifestBundle / validateBundleModules (splitting by            *)
(* encapsulation), sortBundles, and bundle() with its collaborators.        *)
(*                                                                         *)
(* Tag names are strings; they are modelled as sequences of UTF-16 code    *)
(* units (small naturals) so that the "<" and ">" of the sort comparators  *)
(* is the lexicographic comparison JavaScript performs.                    *)
(* JavaScript objects that are shared by reference (a ManifestBundle) carry *)
(* an id standing for their identity.                                      *)
(***************************************************************************)
EXTENDS Integers, Sequences, FiniteSets, TLC

VARIABLES
  moduleFiles,      \* ctx.manifest.modulesFiles : ModuleFile[]
  bundles,          \* ctx.manifest.bundles : Bundle[] (the declarations)
  diagnostics,      \* ctx.diagnostics : Diagnostic[]
  manifestBundles,  \* ctx.manifestBundles : ManifestBundle[]
  validatedBundles, \* the accumulator of validateBundleModules
  idx,              \* position of validateBundleModules' forEach
  nextId,           \* next fresh object identity
  pc,               \* position inside bundle(), or of a direct call
  atEntry,          \* ghost: what the current phase started from
  callArg,          \* argument of a direct call of an exported function
  callRet,          \* its return value
  styles,           \* the promise of bundleStyles: idle, pending, fulfilled, rejected
  modules,          \* the promise of bundleModules, likewise
  promiseAll,       \* the promise of Promise.all([...])
  calls,            \* ghost: the collaborators bundle() has invoked, in order
  caught            \* ghost: the step whose exception the catch block received

\* the state of the asynchronous tail of bundle()
tail == <<styles, modules, promiseAll, calls, caught>>

vars == <<moduleFiles, bundles, diagnostics, manifestBundles, validatedBundles,
          idx, nextId, pc, atEntry, callArg, callRet, tail>>

\* nothing of the tail has started
TailIdle ==
  /\ styles = "idle"
  /\ modules = "idle"
  /\ promiseAll = [state |-> "idle", reason |-> "none"]
  /\ calls = <<>>
  /\ caught = "none"

-----------------------------------------------------------------------------
(* Bounds of the model *)

\* most declarations in ctx.manifest.bundles
MaxBundles == 2
\* most tags in all the declarations together
MaxTagRefs == 3
\* most modules in a list handed directly to findPrimaryEncapsulation
MaxModuleFiles == 4
\* most bundles in a list handed directly to sortBundles
MaxSortBundles == 4
\* most modules in all the bundles of such a list together
MaxSortModules == 5
\* most tags in all the declarations together when the whole of bundle() runs
MaxPhaseTagRefs == 2

-----------------------------------------------------------------------------
(* Data *)

\* tag names "a", "ab", "b" as code-unit sequences
TagNames == { <<1>>, <<1, 2>>, <<2>> }

\* ENCAPSULATION of util/constants, used by name
Encapsulations == { "NoEncapsulation", "ScopedCss", "ShadowDom" }

ModuleFile(tag, enc, styled) ==
  [cmpMeta |-> [tagNameMeta |-> tag, encapsulation |-> enc, stylesMeta |-> styled]]

Min(S) == CHOOSE x \in S : \A y \in S : x <= y
Max(S) == CHOOSE x \in S : \A y \in S : x >= y

\* every sequence over S of length 0..n
SeqsUpTo(S, n) == UNION { [1..k -> S] : k \in 0..n }

\* Op applied to the value of v, v being evaluated once
With(v, Op(_)) == CHOOSE r \in { Op(x) : x \in {v} } : TRUE

\* Array.prototype.filter
Filter(arr, keep(_)) == SelectSeq(arr, keep)

\* a < b on two strings: lexicographic on code units, a proper prefix is less
RECURSIVE StrLess(_, _)
StrLess(a, b) ==
  IF b = <<>> THEN FALSE
  ELSE IF a = <<>> THEN TRUE
  ELSE IF Head(a) < Head(b) THEN TRUE
  ELSE IF Head(a) > Head(b) THEN FALSE
  ELSE StrLess(Tail(a), Tail(b))

\* Array.prototype.sort(compareFn) on a short array: the element at n is moved
\* left past every element the comparator puts after it (order > 0), and
\* stops at the first one it does not; equal elements keep their order.
InsertSorted(sorted, element, compareFn(_, _)) ==
  LET stay == { j \in 1..Len(sorted) : compareFn(sorted[j], element) <= 0 }
      pos  == IF stay = {} THEN 0 ELSE Max(stay)
  IN SubSeq(sorted, 1, pos) \o <<element>> \o SubSeq(sorted, pos + 1, Len(sorted))

ArraySort(array, compareFn(_, _)) ==
  With(array, LAMBDA arr :
    LET f[n \in 0..Len(arr)] ==
          IF n = 0 THEN <<>>
          ELSE With(f[n - 1], LAMBDA sorted : InsertSorted(sorted, arr[n], compareFn))
    IN f[Len(arr)])

-----------------------------------------------------------------------------
(* bundle.ts *)

createManifestBundle(id, mf) ==
  [id |-> id, moduleFiles |-> mf, compiledModuleText |-> ""]

\* buildError(diagnostics): appends one error diagnostic and returns it; the
\* caller then sets its messageText
buildError(diags, text, tag) ==
  Append(diags, [level |-> "error", type |-> "build", header |-> "bundle",
                 messageText |-> <<text, tag>>])

\* hasError(diagnostics)
hasError(diags) == \E i \in 1..Len(diags) : diags[i].level = "error"

\* moduleFiles.find(m => m.cmpMeta.tagNameMeta === tag): index of the first
\* match, 0 when there is none
FindModuleFile(mfs, tag) ==
  LET hit == { i \in 1..Len(mfs) : mfs[i].cmpMeta.tagNameMeta = tag }
  IN IF hit = {} THEN 0 ELSE Min(hit)

\* (mutation) a module already in the bundle is not pushed again
ResolveTag_SkipRepeated(acc, mfs, tag) ==
  With(FindModuleFile(mfs, tag), LAMBDA at :
    IF at # 0
    THEN IF \E n \in 1..Len(acc.moduleFiles) : acc.moduleFiles[n] = mfs[at]
         THEN acc
         ELSE [acc EXCEPT !.moduleFiles = Append(@, mfs[at])]
    ELSE [acc EXCEPT !.diagnostics =
            buildError(@, "no matching component was found", tag)])

\* (mutation) a tag without a module is skipped without a diagnostic
ResolveTag_Silent(acc, mfs, tag) ==
  With(FindModuleFile(mfs, tag), LAMBDA at :
    IF at # 0
    THEN [acc EXCEPT !.moduleFiles = Append(@, mfs[at])]
    ELSE acc)

\* (mutation) the module is put in front of the bundle (unshift for push)
ResolveTag_Unshift(acc, mfs, tag) ==
  With(FindModuleFile(mfs, tag), LAMBDA at :
    IF at # 0
    THEN [acc EXCEPT !.moduleFiles = <<mfs[at]>> \o @]
    ELSE [acc EXCEPT !.diagnostics =
            buildError(@, "no matching component was found", tag)])

\* one turn of the inner forEach of getManifestBundles: the tag's module is
\* pushed, or an error is reported
ResolveTag(acc, mfs, tag) ==
  With(FindModuleFile(mfs, tag), LAMBDA at :
    IF at # 0
    THEN [acc EXCEPT !.moduleFiles = Append(@, mfs[at])]
    ELSE [acc EXCEPT !.diagnostics =
            buildError(@, "no matching component was found", tag)])

\* bundle.components.forEach(...): [moduleFiles, diagnostics] after every tag
ResolveComponents(mfs, components, diags) ==
  LET f[n \in 0..Len(components)] ==
        IF n = 0 THEN [moduleFiles |-> <<>>, diagnostics |-> diags]
        ELSE ResolveTag(f[n - 1], mfs, components[n])
  IN f[Len(components)]

\* (mutation) the bundle is pushed whether or not it holds a module
PushResolved_Always(mbs, mb) == Append(mbs, mb)

\* if (manifestBundle.moduleFiles.length > 0) manifestBundles.push(manifestBundle)
PushResolved(mbs, mb) ==
  IF Len(mb.moduleFiles) > 0 THEN Append(mbs, mb) ELSE mbs

\* getManifestBundles(moduleFiles, bundles, diagnostics)
getManifestBundles(mfs, bs, diags, id0) ==
  With(Filter(bs, LAMBDA b : Len(b.components) > 0), LAMBDA decls :
    LET f[n \in 0..Len(decls)] ==
          IF n = 0
          THEN [manifestBundles |-> <<>>, diagnostics |-> diags, nextId |-> id0]
          ELSE With(f[n - 1], LAMBDA prev :
                 With(ResolveComponents(mfs, decls[n].components, prev.diagnostics),
                      LAMBDA r :
                   [manifestBundles |->
                      PushResolved(prev.manifestBundles,
                                   createManifestBundle(prev.nextId, r.moduleFiles)),
                    diagnostics |-> r.diagnostics,
                    nextId |-> prev.nextId + 1]))
    IN f[Len(decls)])

\* (mutation) the comparator never answers 0
compareBuckets_NoTie(a, b) ==
  IF Len(a) > Len(b) THEN -1 ELSE 1

\* the comparator of findPrimaryEncapsulation's sort: longer bucket first
compareBuckets(a, b) ==
  IF Len(a) < Len(b) THEN 1 ELSE IF Len(a) > Len(b) THEN -1 ELSE 0

\* findPrimaryEncapsulation(moduleFiles)
findPrimaryEncapsulation(mfs) ==
  LET plainCssCmps  == Filter(mfs, LAMBDA m :
                         m.cmpMeta.encapsulation # "ScopedCss"
                         /\ m.cmpMeta.encapsulation # "ShadowDom")
      scopedCssCmps == Filter(mfs, LAMBDA m : m.cmpMeta.encapsulation = "ScopedCss")
      shadowCssCmps == Filter(mfs, LAMBDA m : m.cmpMeta.encapsulation = "ShadowDom")
  IN With(ArraySort(<<plainCssCmps, scopedCssCmps, shadowCssCmps>>, compareBuckets),
          LAMBDA sorted :
            IF Len(sorted) > 0 /\ Len(sorted[1]) > 0
            THEN sorted[1][1].cmpMeta.encapsulation
            ELSE "null")

\* (mutation) the test on stylesMeta is not negated
CssGroup_Styled(m, primaryEncapsulation) ==
  IF m.cmpMeta.encapsulation = primaryEncapsulation \/ m.cmpMeta.stylesMeta
  THEN "primaryCss"
  ELSE IF m.cmpMeta.encapsulation = "ScopedCss" THEN "scopedCss"
  ELSE IF m.cmpMeta.encapsulation = "ShadowDom" THEN "shadowCss"
  ELSE "plainCss"

\* (mutation) the chain has no final else
CssGroup_NoElse(m, primaryEncapsulation) ==
  IF m.cmpMeta.encapsulation = primaryEncapsulation \/ ~m.cmpMeta.stylesMeta
  THEN "primaryCss"
  ELSE IF m.cmpMeta.encapsulation = "ScopedCss" THEN "scopedCss"
  ELSE IF m.cmpMeta.encapsulation = "ShadowDom" THEN "shadowCss"
  ELSE "none"

\* (mutation) a module without styles is not kept in the primary group
CssGroup_ModeOnly(m, primaryEncapsulation) ==
  IF m.cmpMeta.encapsulation = primaryEncapsulation
  THEN "primaryCss"
  ELSE IF m.cmpMeta.encapsulation = "ScopedCss" THEN "scopedCss"
  ELSE IF m.cmpMeta.encapsulation = "ShadowDom" THEN "shadowCss"
  ELSE "plainCss"

\* the if / else-if chain of validateManifestBundle's forEach: the array the
\* module is pushed to
CssGroup(m, primaryEncapsulation) ==
  IF m.cmpMeta.encapsulation = primaryEncapsulation \/ ~m.cmpMeta.stylesMeta
  THEN "primaryCss"
  ELSE IF m.cmpMeta.encapsulation = "ScopedCss" THEN "scopedCss"
  ELSE IF m.cmpMeta.encapsulation = "ShadowDom" THEN "shadowCss"
  ELSE "plainCss"

\* validateManifestBundle(validatedBundles, manifestBundle): the accumulator
\* after the call, the bundle object after the call (its moduleFiles may be
\* reassigned), and the next fresh identity
validateManifestBundle(validated, mb, id0) ==
  IF Len(mb.moduleFiles) = 0
  THEN [validatedBundles |-> validated, manifestBundle |-> mb, nextId |-> id0]
  ELSE IF Len(mb.moduleFiles) = 1
  THEN [validatedBundles |-> Append(validated, mb), manifestBundle |-> mb,
        nextId |-> id0]
  ELSE
    With(findPrimaryEncapsulation(mb.moduleFiles), LAMBDA primaryEncapsulation :
      With([g \in {"primaryCss", "scopedCss", "shadowCss", "plainCss"} |->
              Filter(mb.moduleFiles,
                     LAMBDA m : CssGroup(m, primaryEncapsulation) = g)],
           LAMBDA css :
        LET mb1 == IF Len(css.primaryCss) > 0
                   THEN [mb EXCEPT !.moduleFiles = css.primaryCss] ELSE mb
            new == SelectSeq(<<css.scopedCss, css.shadowCss, css.plainCss>>,
                             LAMBDA g : Len(g) > 0)
        IN [validatedBundles |->
              (IF Len(css.primaryCss) > 0 THEN Append(validated, mb1) ELSE validated)
              \o [k \in 1..Len(new) |-> createManifestBundle(id0 + k - 1, new[k])],
            manifestBundle |-> mb1,
            nextId |-> id0 + Len(new)]))

\* validateBundleModules(manifestBundles): run to completion
validateBundleModules(mbs, id0) ==
  LET f[n \in 0..Len(mbs)] ==
        IF n = 0 THEN [validatedBundles |-> <<>>, nextId |-> id0]
        ELSE With(f[n - 1], LAMBDA prev :
               With(validateManifestBundle(prev.validatedBundles, mbs[n], prev.nextId),
                    LAMBDA r :
                 [validatedBundles |-> r.validatedBundles, nextId |-> r.nextId]))
  IN f[Len(mbs)]

\* the comparator of sortBundles' inner sort
compareModuleFiles(a, b) ==
  IF StrLess(a.cmpMeta.tagNameMeta, b.cmpMeta.tagNameMeta) THEN -1
  ELSE IF StrLess(b.cmpMeta.tagNameMeta, a.cmpMeta.tagNameMeta) THEN 1
  ELSE 0

\* (mutation) the two answers are swapped
compareManifestBundles_Desc(a, b) ==
  IF StrLess(a.moduleFiles[1].cmpMeta.tagNameMeta, b.moduleFiles[1].cmpMeta.tagNameMeta)
  THEN 1
  ELSE IF StrLess(b.moduleFiles[1].cmpMeta.tagNameMeta, a.moduleFiles[1].cmpMeta.tagNameMeta)
  THEN -1
  ELSE 0

\* (mutation) the comparator never answers 0
compareManifestBundles_NoTie(a, b) ==
  IF StrLess(a.moduleFiles[1].cmpMeta.tagNameMeta, b.moduleFiles[1].cmpMeta.tagNameMeta)
  THEN -1
  ELSE 1

\* the comparator of sortBundles' outer sort
compareManifestBundles(a, b) ==
  IF StrLess(a.moduleFiles[1].cmpMeta.tagNameMeta, b.moduleFiles[1].cmpMeta.tagNameMeta)
  THEN -1
  ELSE IF StrLess(b.moduleFiles[1].cmpMeta.tagNameMeta, a.moduleFiles[1].cmpMeta.tagNameMeta)
  THEN 1
  ELSE 0

\* reading moduleFiles[0].cmpMeta of an empty bundle is a TypeError; the outer
\* comparator runs only when there are two bundles or more
sortBundlesThrows(mbs) ==
  Len(mbs) >= 2 /\ \E i \in 1..Len(mbs) : Len(mbs[i].moduleFiles) = 0

\* sortBundles(manifestBundles)
sortBundles(mbs) ==
  ArraySort([i \in 1..Len(mbs) |->
               [mbs[i] EXCEPT !.moduleFiles = ArraySort(@, compareModuleFiles)]],
            compareManifestBundles)

-----------------------------------------------------------------------------
(* bundle(): the synchronous head, one step per statement *)

\* bundle() entered without the look at the diagnostics of earlier phases
BundleEnter_NoCheck ==
  /\ pc = "bundle"
  /\ pc' = "getManifestBundles"
  /\ UNCHANGED <<moduleFiles, bundles, diagnostics, manifestBundles,
                 validatedBundles, idx, nextId, atEntry, callArg, callRet>>
  /\ UNCHANGED tail

\* if (hasError(ctx.diagnostics)) return
BundleEnter ==
  /\ pc = "bundle"
  /\ pc' = IF hasError(diagnostics) THEN "returned" ELSE "getManifestBundles"
  /\ UNCHANGED <<moduleFiles, bundles, diagnostics, manifestBundles,
                 validatedBundles, idx, nextId, atEntry, callArg, callRet>>
  /\ UNCHANGED tail

\* ctx.manifestBundles = getManifestBundles(...)
GetManifestBundles ==
  /\ pc = "getManifestBundles"
  /\ \E r \in { getManifestBundles(moduleFiles, bundles, diagnostics, nextId) } :
        /\ manifestBundles' = r.manifestBundles
        /\ diagnostics' = r.diagnostics
        /\ nextId' = r.nextId
        /\ atEntry' = [atEntry EXCEPT !.preliminary = r.manifestBundles]
  /\ validatedBundles' = <<>>
  /\ idx' = 1
  /\ pc' = "validateBundleModules"
  /\ UNCHANGED <<moduleFiles, bundles, callArg, callRet>>
  /\ UNCHANGED tail

\* one turn of validateBundleModules' forEach
ValidateManifestBundle ==
  /\ pc = "validateBundleModules"
  /\ idx <= Len(manifestBundles)
  /\ \E r \in { validateManifestBundle(validatedBundles, manifestBundles[idx], nextId) } :
        /\ validatedBundles' = r.validatedBundles
        /\ manifestBundles' = [manifestBundles EXCEPT ![idx] = r.manifestBundle]
        /\ nextId' = r.nextId
  /\ idx' = idx + 1
  /\ UNCHANGED <<moduleFiles, bundles, diagnostics, pc, atEntry, callArg, callRet>>
  /\ UNCHANGED tail

\* return validatedBundles, assigned to ctx.manifestBundles
ValidateBundleModulesReturn ==
  /\ pc = "validateBundleModules"
  /\ idx > Len(manifestBundles)
  /\ manifestBundles' = validatedBundles
  /\ pc' = "sortBundles"
  /\ UNCHANGED <<moduleFiles, bundles, diagnostics, validatedBundles, idx, nextId,
                 atEntry, callArg, callRet>>
  /\ UNCHANGED tail

\* ctx.manifestBundles = sortBundles(ctx.manifestBundles); a TypeError thrown
\* by the comparator is caught by bundle()'s catch
SortBundles ==
  /\ pc = "sortBundles"
  /\ IF sortBundlesThrows(manifestBundles)
     THEN /\ diagnostics' = Append(diagnostics,
                [level |-> "error", type |-> "build", header |-> "build error",
                 messageText |-> <<"TypeError", <<>>>>])
          /\ pc' = "finished"
          /\ caught' = "sortBundles"
          /\ UNCHANGED manifestBundles
     ELSE /\ manifestBundles' = sortBundles(manifestBundles)
          /\ pc' = "upgradeDependentComponents"
          /\ UNCHANGED <<diagnostics, caught>>
  /\ atEntry' = [atEntry EXCEPT !.validated = manifestBundles]
  /\ UNCHANGED <<moduleFiles, bundles, validatedBundles, idx, nextId, callArg, callRet>>
  /\ UNCHANGED <<styles, modules, promiseAll, calls>>

-----------------------------------------------------------------------------
(* The build the phase starts from *)

\* the six kinds of component: an encapsulation, with or without styles
CmpKinds == Encapsulations \X BOOLEAN

\* the tags that may be components of the app; the other tag names are only
\* ever declared
ComponentTagNames == { <<1>>, <<1, 2>> }

\* the modules of the tags in `tags`, kinds[t] being the kind of tag t or "absent"
ModuleFilesOf(tags, kinds) ==
  LET present == { t \in tags : kinds[t] # "absent" }
      order[S \in SUBSET present] ==
        IF S = {} THEN <<>>
        ELSE LET t == CHOOSE x \in S : \A y \in S : x = y \/ StrLess(y, x)
             IN Append(order[S \ {t}], ModuleFile(t, kinds[t][1], kinds[t][2]))
  IN order[present]

\* an app's modules: tag names are unique across the module set
ModuleFileLists ==
  { ModuleFilesOf(ComponentTagNames, k)
    : k \in [ComponentTagNames -> CmpKinds \cup {"absent"}] }

\* an app in which every tag name is a component
FullModuleFileLists ==
  { ModuleFilesOf(TagNames, k) : k \in [TagNames -> CmpKinds] }

RECURSIVE SumSeq(_)
SumSeq(s) == IF s = <<>> THEN 0 ELSE Head(s) + SumSeq(Tail(s))

\* the tag sequence ts cut into consecutive pieces of the lengths lens
CutInto(ts, lens) ==
  [i \in 1..Len(lens) |->
     SubSeq(ts, SumSeq(SubSeq(lens, 1, i - 1)) + 1, SumSeq(SubSeq(lens, 1, i)))]

\* every list of at most nLists tag lists (of lowest..total tags each) holding
\* at most total tags together
TagLists(nLists, total, lowest) ==
  UNION { { CutInto(ts, lens) : ts \in [1..SumSeq(lens) -> TagNames] }
          : lens \in { l \in SeqsUpTo(lowest..total, nLists) : SumSeq(l) <= total } }

BundleDeclarations ==
  { [i \in 1..Len(tl) |-> [components |-> tl[i]]]
    : tl \in TagLists(MaxBundles, MaxTagRefs, 0) }

PriorDiagnostic(level) ==
  [level |-> level, type |-> "build", header |-> "transpile",
   messageText |-> <<"prior", <<>>>>]

PriorDiagnostics ==
  { <<>>, <<PriorDiagnostic("warn")>>, <<PriorDiagnostic("error")>> }

\* the ghost record at the start of a phase
Ghost(diags, mbs, prelim) ==
  [diagnostics |-> diags, manifestBundles |-> mbs, preliminary |-> prelim,
   validated |-> <<>>]

Init ==
  /\ moduleFiles \in ModuleFileLists
  /\ bundles \in BundleDeclarations
  /\ diagnostics \in PriorDiagnostics
  /\ manifestBundles = <<>>
  /\ validatedBundles = <<>>
  /\ idx = 0
  /\ nextId = 1
  /\ pc = "bundle"
  /\ atEntry = Ghost(diagnostics, <<>>, <<>>)
  /\ callArg = <<>>
  /\ callRet = <<>>
  /\ TailIdle

Next ==
  \/ BundleEnter
  \/ GetManifestBundles
  \/ ValidateManifestBundle
  \/ ValidateBundleModulesReturn
  \/ SortBundles

Spec == Init /\ [][Next]_vars

-----------------------------------------------------------------------------
(* validateBundleModules on any list of preliminary bundles *)

\* the module of tag t in the list mfs (tag names are unique)
ModuleOfTag(mfs, t) ==
  mfs[CHOOSE i \in 1..Len(mfs) : mfs[i].cmpMeta.tagNameMeta = t]

\* the bundles whose modules are the tags of each list of tl, one fresh object each
BundlesOfTags(mfs, tl) ==
  [i \in 1..Len(tl) |->
     createManifestBundle(i, [n \in 1..Len(tl[i]) |-> ModuleOfTag(mfs, tl[i][n])])]

InitValidate ==
  /\ moduleFiles \in FullModuleFileLists
  /\ bundles \in BundleDeclarations
  /\ diagnostics = <<>>
  /\ manifestBundles =
       BundlesOfTags(moduleFiles, [i \in 1..Len(bundles) |-> bundles[i].components])
  /\ validatedBundles = <<>>
  /\ idx = 1
  /\ nextId = Len(bundles) + 1
  /\ pc = "validateBundleModules"
  /\ atEntry = Ghost(<<>>, <<>>, manifestBundles)
  /\ callArg = <<>>
  /\ callRet = <<>>
  /\ TailIdle

NextValidate ==
  \/ ValidateManifestBundle
  \/ ValidateBundleModulesReturn

SpecValidate == InitValidate /\ [][NextValidate]_vars

-----------------------------------------------------------------------------
(* findPrimaryEncapsulation called on any list of modules *)

CallFindPrimaryEncapsulation ==
  /\ pc = "findPrimaryEncapsulation"
  /\ callRet' = findPrimaryEncapsulation(callArg)
  /\ pc' = "findPrimaryEncapsulation returned"
  /\ UNCHANGED <<moduleFiles, bundles, diagnostics, manifestBundles,
                 validatedBundles, idx, nextId, atEntry, callArg>>
  /\ UNCHANGED tail

InitPrimary ==
  /\ moduleFiles \in FullModuleFileLists
  /\ callArg \in { [n \in 1..Len(ts) |-> ModuleOfTag(moduleFiles, ts[n])]
                   : ts \in SeqsUpTo(TagNames, MaxModuleFiles) }
  /\ bundles = <<>>
  /\ diagnostics = <<>>
  /\ manifestBundles = <<>>
  /\ validatedBundles = <<>>
  /\ idx = 0
  /\ nextId = 1
  /\ pc = "findPrimaryEncapsulation"
  /\ atEntry = Ghost(<<>>, <<>>, <<>>)
  /\ callRet = "none yet"
  /\ TailIdle

SpecPrimary == InitPrimary /\ [][CallFindPrimaryEncapsulation]_vars

-----------------------------------------------------------------------------
(* sortBundles called on any list of non-empty bundles, and again on its result *)

CallSortBundles ==
  /\ pc = "sortBundles called"
  /\ callRet' = sortBundles(callArg)
  /\ pc' = "sortBundles returned"
  /\ UNCHANGED <<moduleFiles, bundles, diagnostics, manifestBundles,
                 validatedBundles, idx, nextId, atEntry, callArg>>
  /\ UNCHANGED tail

CallSortBundlesAgain ==
  /\ pc = "sortBundles returned"
  /\ callArg' = callRet
  /\ callRet' = sortBundles(callRet)
  /\ pc' = "sortBundles returned again"
  /\ UNCHANGED <<moduleFiles, bundles, diagnostics, manifestBundles,
                 validatedBundles, idx, nextId, atEntry>>
  /\ UNCHANGED tail

\* an app of plain styled components, one per tag name
PlainModuleFiles ==
  ModuleFilesOf(TagNames, [t \in TagNames |-> <<"NoEncapsulation", TRUE>>])

InitSort ==
  /\ moduleFiles = PlainModuleFiles
  /\ callArg \in { BundlesOfTags(moduleFiles, tl)
                   : tl \in TagLists(MaxSortBundles, MaxSortModules, 1) }
  /\ bundles = <<>>
  /\ diagnostics = <<>>
  /\ manifestBundles = <<>>
  /\ validatedBundles = <<>>
  /\ idx = 0
  /\ nextId = Len(callArg) + 1
  /\ pc = "sortBundles called"
  /\ atEntry = Ghost(<<>>, <<>>, callArg)
  /\ callRet = <<>>
  /\ TailIdle

NextSort ==
  \/ CallSortBundles
  \/ CallSortBundlesAgain

SpecSort == InitSort /\ [][NextSort]_vars

-----------------------------------------------------------------------------
(* The synchronous head of bundle() run on two orderings of one input *)

\* lines 27, 30 and 33 of bundle() in one piece: the module lists of the
\* bundles left in ctx.manifestBundles
BundleModuleLists(mfs, bs) ==
  With(getManifestBundles(mfs, bs, <<>>, 1), LAMBDA got :
    With(validateBundleModules(got.manifestBundles, got.nextId), LAMBDA valid :
      With(sortBundles(valid.validatedBundles), LAMBDA sorted :
        [i \in 1..Len(sorted) |-> sorted[i].moduleFiles])))

Reverse(s) == [i \in 1..Len(s) |-> s[Len(s) + 1 - i]]

\* the same declarations in another order, or with their tags in another order
Reorderings(bs) ==
  { Reverse(bs),
    [i \in 1..Len(bs) |-> [components |-> Reverse(bs[i].components)]],
    Reverse([i \in 1..Len(bs) |-> [components |-> Reverse(bs[i].components)]]) }

CallBundleTwice ==
  /\ pc = "bundle twice"
  /\ callRet' = <<BundleModuleLists(moduleFiles, callArg[1]),
                  BundleModuleLists(moduleFiles, callArg[2])>>
  /\ pc' = "bundle twice returned"
  /\ UNCHANGED <<moduleFiles, bundles, diagnostics, manifestBundles,
                 validatedBundles, idx, nextId, atEntry, callArg>>
  /\ UNCHANGED tail

InitOrder ==
  /\ moduleFiles \in FullModuleFileLists
  /\ bundles \in BundleDeclarations
  /\ callArg \in { <<bundles, r>> : r \in Reorderings(bundles) }
  /\ diagnostics = <<>>
  /\ manifestBundles = <<>>
  /\ validatedBundles = <<>>
  /\ idx = 0
  /\ nextId = 1
  /\ pc = "bundle twice"
  /\ atEntry = Ghost(<<>>, <<>>, <<>>)
  /\ callRet = <<>>
  /\ TailIdle

SpecOrder == InitOrder /\ [][CallBundleTwice]_vars

-----------------------------------------------------------------------------
(* bundle() as a whole: the head above, then the awaited collaborators *)

\* the collaborators bundle() calls after sortBundles, in the order of the code
Collaborators ==
  <<"upgradeDependentComponents", "bundleStyles", "bundleModules", "generateBundles">>

\* a promise: its state and, once rejected, whose error it carries
Promise(state, reason) == [state |-> state, reason |-> reason]

\* catchError(ctx.diagnostics, e): the exception becomes an error diagnostic
catchError(diags, e) ==
  Append(diags, [level |-> "error", type |-> "build", header |-> "build error",
                 messageText |-> <<e, <<>>>>])

\* Promise.all resolving as soon as one of its promises is fulfilled
PromiseAll_Race(all, s, m) ==
  IF all.state # "pending" THEN all
  ELSE IF s = "rejected" THEN Promise("rejected", "bundleStyles")
  ELSE IF m = "rejected" THEN Promise("rejected", "bundleModules")
  ELSE IF s = "fulfilled" \/ m = "fulfilled" THEN Promise("fulfilled", "none")
  ELSE all

\* Promise.all([bundleStyles(..), bundleModules(..)]) after one of the two
\* promises settled: rejected with the first rejection, fulfilled when both
\* are fulfilled, and settled only once
PromiseAll(all, s, m) ==
  IF all.state # "pending" THEN all
  ELSE IF s = "rejected" THEN Promise("rejected", "bundleStyles")
  ELSE IF m = "rejected" THEN Promise("rejected", "bundleModules")
  ELSE IF s = "fulfilled" /\ m = "fulfilled" THEN Promise("fulfilled", "none")
  ELSE all

\* bundleModules writes the compiled text of every bundle
WriteModuleText(mbs) ==
  [i \in DOMAIN mbs |-> [mbs[i] EXCEPT !.compiledModuleText = "compiled"]]

\* the continuation looking at the diagnostics again and giving up on an error
UpgradeDependentComponentsResolved_Recheck ==
  /\ pc = "upgradeDependentComponents"
  /\ IF hasError(diagnostics)
     THEN /\ calls' = Append(calls, "upgradeDependentComponents")
          /\ pc' = "finished"
          /\ UNCHANGED <<styles, modules, promiseAll>>
     ELSE /\ calls' = calls \o <<"upgradeDependentComponents", "bundleStyles", "bundleModules">>
          /\ styles' = "pending"
          /\ modules' = "pending"
          /\ promiseAll' = Promise("pending", "none")
          /\ pc' = "Promise.all"
  /\ UNCHANGED <<moduleFiles, bundles, diagnostics, manifestBundles,
                 validatedBundles, idx, nextId, atEntry, callArg, callRet, caught>>

\* await upgradeDependentComponents(..) resolves; the continuation calls
\* bundleStyles and bundleModules and awaits Promise.all of the two promises
UpgradeDependentComponentsResolved ==
  /\ pc = "upgradeDependentComponents"
  /\ calls' = calls \o <<"upgradeDependentComponents", "bundleStyles", "bundleModules">>
  /\ styles' = "pending"
  /\ modules' = "pending"
  /\ promiseAll' = Promise("pending", "none")
  /\ pc' = "Promise.all"
  /\ UNCHANGED <<moduleFiles, bundles, diagnostics, manifestBundles,
                 validatedBundles, idx, nextId, atEntry, callArg, callRet, caught>>

\* await upgradeDependentComponents(..) rejects: catch, then timeSpan.finish
UpgradeDependentComponentsRejected ==
  /\ pc = "upgradeDependentComponents"
  /\ calls' = Append(calls, "upgradeDependentComponents")
  /\ caught' = "upgradeDependentComponents"
  /\ diagnostics' = catchError(diagnostics, "upgradeDependentComponents")
  /\ pc' = "finished"
  /\ UNCHANGED <<moduleFiles, bundles, manifestBundles, validatedBundles, idx,
                 nextId, atEntry, callArg, callRet, styles, modules, promiseAll>>

\* the promise of bundleStyles is fulfilled
BundleStylesFulfilled ==
  /\ styles = "pending"
  /\ styles' = "fulfilled"
  /\ promiseAll' = PromiseAll(promiseAll, "fulfilled", modules)
  /\ UNCHANGED <<moduleFiles, bundles, diagnostics, manifestBundles, validatedBundles,
                 idx, nextId, pc, atEntry, callArg, callRet, modules, calls, caught>>

\* the promise of bundleStyles is rejected
BundleStylesRejected ==
  /\ styles = "pending"
  /\ styles' = "rejected"
  /\ promiseAll' = PromiseAll(promiseAll, "rejected", modules)
  /\ UNCHANGED <<moduleFiles, bundles, diagnostics, manifestBundles, validatedBundles,
                 idx, nextId, pc, atEntry, callArg, callRet, modules, calls, caught>>

\* the promise of bundleModules is fulfilled, the bundles' text written
BundleModulesFulfilled ==
  /\ modules = "pending"
  /\ modules' = "fulfilled"
  /\ manifestBundles' = WriteModuleText(manifestBundles)
  /\ promiseAll' = PromiseAll(promiseAll, styles, "fulfilled")
  /\ UNCHANGED <<moduleFiles, bundles, diagnostics, validatedBundles,
                 idx, nextId, pc, atEntry, callArg, callRet, styles, calls, caught>>

\* the promise of bundleModules is rejected
BundleModulesRejected ==
  /\ modules = "pending"
  /\ modules' = "rejected"
  /\ promiseAll' = PromiseAll(promiseAll, styles, "rejected")
  /\ UNCHANGED <<moduleFiles, bundles, diagnostics, manifestBundles, validatedBundles,
                 idx, nextId, pc, atEntry, callArg, callRet, styles, calls, caught>>

\* await Promise.all(..) resolves; generateBundles(..) returns; timeSpan.finish
GenerateBundles ==
  /\ pc = "Promise.all"
  /\ promiseAll.state = "fulfilled"
  /\ calls' = Append(calls, "generateBundles")
  /\ pc' = "finished"
  /\ UNCHANGED <<moduleFiles, bundles, diagnostics, manifestBundles, validatedBundles,
                 idx, nextId, atEntry, callArg, callRet, styles, modules,
                 promiseAll, caught>>

\* await Promise.all(..) resolves; generateBundles(..) throws: catch, finish
GenerateBundlesThrows ==
  /\ pc = "Promise.all"
  /\ promiseAll.state = "fulfilled"
  /\ calls' = Append(calls, "generateBundles")
  /\ caught' = "generateBundles"
  /\ diagnostics' = catchError(diagnostics, "generateBundles")
  /\ pc' = "finished"
  /\ UNCHANGED <<moduleFiles, bundles, manifestBundles, validatedBundles, idx,
                 nextId, atEntry, callArg, callRet, styles, modules, promiseAll>>

\* await Promise.all(..) rejects: catch, then timeSpan.finish
PromiseAllRejected ==
  /\ pc = "Promise.all"
  /\ promiseAll.state = "rejected"
  /\ caught' = promiseAll.reason
  /\ diagnostics' = catchError(diagnostics, promiseAll.reason)
  /\ pc' = "finished"
  /\ UNCHANGED <<moduleFiles, bundles, manifestBundles, validatedBundles, idx,
                 nextId, atEntry, callArg, callRet, styles, modules, promiseAll,
                 calls>>

PhaseDeclarations ==
  { [i \in 1..Len(tl) |-> [components |-> tl[i]]]
    : tl \in TagLists(MaxBundles, MaxPhaseTagRefs, 0) }

InitPhase ==
  /\ moduleFiles \in ModuleFileLists
  /\ bundles \in PhaseDeclarations
  /\ diagnostics \in PriorDiagnostics
  /\ manifestBundles = <<>>
  /\ validatedBundles = <<>>
  /\ idx = 0
  /\ nextId = 1
  /\ pc = "bundle"
  /\ atEntry = Ghost(diagnostics, <<>>, <<>>)
  /\ callArg = <<>>
  /\ callRet = <<>>
  /\ TailIdle

NextPhase ==
  \/ BundleEnter
  \/ GetManifestBundles
  \/ ValidateManifestBundle
  \/ ValidateBundleModulesReturn
  \/ SortBundles
  \/ UpgradeDependentComponentsResolved
  \/ UpgradeDependentComponentsRejected
  \/ BundleStylesFulfilled
  \/ BundleStylesRejected
  \/ BundleModulesFulfilled
  \/ BundleModulesRejected
  \/ GenerateBundles
  \/ GenerateBundlesThrows
  \/ PromiseAllRejected

SpecPhase == InitPhase /\ [][NextPhase]_vars

-----------------------------------------------------------------------------
(* Properties *)

Range(s) == { s[i] : i \in DOMAIN s }

\* the places <<bundle, position>> of a list of bundles
Slots(mbs) ==
  UNION { { <<b, n>> : n \in DOMAIN mbs[b].moduleFiles } : b \in DOMAIN mbs }

\* how often module m occurs in a list of bundles
Occurrences(mbs, m) ==
  Cardinality({ p \in Slots(mbs) : mbs[p[1]].moduleFiles[p[2]] = m })

TagsOf(mfs) == [n \in DOMAIN mfs |-> mfs[n].cmpMeta.tagNameMeta]

HasModule(tag) ==
  \E i \in DOMAIN moduleFiles : moduleFiles[i].cmpMeta.tagNameMeta = tag

\* any two modules of the bundle that both declare styles have the same mode
SameModeWhereStyled(mb) ==
  \A i, j \in DOMAIN mb.moduleFiles :
    (mb.moduleFiles[i].cmpMeta.stylesMeta /\ mb.moduleFiles[j].cmpMeta.stylesMeta)
      => mb.moduleFiles[i].cmpMeta.encapsulation = mb.moduleFiles[j].cmpMeta.encapsulation

\* C1: every bundle validateManifestBundle has appended to the validated list,
\* and every bundle validateBundleModules returns, is such that any two of its
\* modules that both declare styles have equal encapsulation modes.
C1_StyledModesEqual ==
  /\ \A b \in DOMAIN validatedBundles : SameModeWhereStyled(validatedBundles[b])
  /\ pc = "sortBundles" =>
       \A b \in DOMAIN manifestBundles : SameModeWhereStyled(manifestBundles[b])

\* a bundle that mixed two styled modes was split, and a bundle that came out
\* holds two styled modules
C1_Witness ==
  /\ pc = "sortBundles"
  /\ Len(atEntry.preliminary) = 1
  /\ ~SameModeWhereStyled(atEntry.preliminary[1])
  /\ Len(manifestBundles) >= 2
  /\ \E b \in DOMAIN manifestBundles :
       \E i, j \in DOMAIN manifestBundles[b].moduleFiles :
         /\ i # j
         /\ manifestBundles[b].moduleFiles[i].cmpMeta.stylesMeta
         /\ manifestBundles[b].moduleFiles[j].cmpMeta.stylesMeta

\* the bundles emitted so far, and the preliminary bundles they were made from
EmittedBundles ==
  IF pc = "validateBundleModules" THEN validatedBundles ELSE manifestBundles
ConsumedBundles ==
  IF pc = "validateBundleModules"
  THEN SubSeq(atEntry.preliminary, 1, idx - 1)
  ELSE atEntry.preliminary

\* C2: the bundles emitted by validateBundleModules hold as many modules as the
\* preliminary bundles did, and every module occurs in the emitted bundles
\* exactly as often as in the preliminary ones (none dropped, none duplicated);
\* the same holds after each turn of the loop for the bundles handled so far.
C2_Conservation ==
  pc \in {"validateBundleModules", "sortBundles"} =>
    /\ Cardinality(Slots(EmittedBundles)) = Cardinality(Slots(ConsumedBundles))
    /\ \A m \in Range(moduleFiles) :
         Occurrences(EmittedBundles, m) = Occurrences(ConsumedBundles, m)

\* two preliminary bundles came out as three or more: one of them was split
C2_Witness ==
  /\ pc = "sortBundles"
  /\ Len(atEntry.preliminary) = 2
  /\ Len(manifestBundles) >= 3
  /\ Cardinality(Slots(manifestBundles)) = 3

\* C3: no bundle with zero modules is in ctx.manifestBundles or in the
\* validated list at any stage (after getManifestBundles, during and after
\* validateBundleModules, after sortBundles), so sortBundles never reads the
\* first module of an empty bundle.
C3_NoEmptyBundle ==
  /\ \A b \in DOMAIN manifestBundles : Len(manifestBundles[b].moduleFiles) >= 1
  /\ \A b \in DOMAIN validatedBundles : Len(validatedBundles[b].moduleFiles) >= 1
  /\ pc = "sortBundles" => ~sortBundlesThrows(manifestBundles)
  /\ \A d \in DOMAIN diagnostics : diagnostics[d].messageText[1] # "TypeError"

\* the three stages were passed, a declaration resolved to nothing and was
\* dropped, and a bundle was split
C3_Witness ==
  /\ pc = "upgradeDependentComponents"
  /\ \E j \in DOMAIN bundles :
       /\ Len(bundles[j].components) >= 1
       /\ \A n \in DOMAIN bundles[j].components : ~HasModule(bundles[j].components[n])
  /\ Len(atEntry.preliminary) = 1
  /\ Len(manifestBundles) = 2

\* getManifestBundles has returned
Resolved == pc \notin {"bundle", "returned", "getManifestBundles"}

\* the identity of the bundle object created for declaration j (a non-empty one)
DeclBundleId(j) ==
  1 + Cardinality({ i \in 1..(j - 1) : Len(bundles[i].components) > 0 })

\* the declarations that name the tag
DeclsNaming(tag) ==
  { j \in DOMAIN bundles : tag \in Range(bundles[j].components) }

\* the preliminary bundles that hold the module of the tag
HoldersOf(tag) ==
  { b \in DOMAIN atEntry.preliminary :
      tag \in Range(TagsOf(atEntry.preliminary[b].moduleFiles)) }

\* C4 as stated: the module of a matching tag is in exactly one preliminary
\* bundle, the bundle built from the declaration that names the tag.
C4_ExactlyOneBundle ==
  Resolved =>
    \A tag \in TagNames : \A j \in DeclsNaming(tag) :
      HasModule(tag) =>
        /\ Cardinality(HoldersOf(tag)) = 1
        /\ \A b \in HoldersOf(tag) : atEntry.preliminary[b].id = DeclBundleId(j)

\* C4 (amended): the module of a matching tag is in the bundle built from each
\* declaration that names the tag, once per occurrence of the tag in that
\* declaration, and in no other preliminary bundle.
C4_TagResolution ==
  Resolved =>
    \A tag \in TagNames :
      HasModule(tag) =>
        /\ { atEntry.preliminary[b].id : b \in HoldersOf(tag) }
             = { DeclBundleId(j) : j \in DeclsNaming(tag) }
        /\ \A j \in DeclsNaming(tag) : \A b \in HoldersOf(tag) :
             atEntry.preliminary[b].id = DeclBundleId(j) =>
               Cardinality({ n \in DOMAIN atEntry.preliminary[b].moduleFiles :
                             atEntry.preliminary[b].moduleFiles[n].cmpMeta.tagNameMeta = tag })
               = Cardinality({ n \in DOMAIN bundles[j].components :
                               bundles[j].components[n] = tag })

\* a module named by two declarations is in both of their bundles, and a tag
\* named twice by one declaration is twice in its bundle
C4_Witness ==
  /\ Resolved
  /\ Len(atEntry.preliminary) = 2
  /\ \E tag \in TagNames :
       /\ Cardinality(HoldersOf(tag)) = 2
       /\ \E b \in HoldersOf(tag) :
            Cardinality({ n \in DOMAIN atEntry.preliminary[b].moduleFiles :
                          atEntry.preliminary[b].moduleFiles[n].cmpMeta.tagNameMeta = tag }) = 2

\* every tag of every declaration, in the order of the declarations
RECURSIVE TagRefs(_)
TagRefs(bs) ==
  IF bs = <<>> THEN <<>> ELSE Head(bs).components \o TagRefs(Tail(bs))

\* the tag occurrences that match no module
MissingTagRefs == SelectSeq(TagRefs(bundles), LAMBDA t : ~HasModule(t))

\* C5: when getManifestBundles returns, the diagnostics are the ones there
\* were before, followed by exactly one error-level diagnostic per occurrence
\* of a tag that matches no module, in the order of the occurrences, each
\* naming its tag; and every tag that does match a module has its module in a
\* preliminary bundle, whatever tags or declarations failed before it.
C5_UnresolvedTagsReported ==
  (pc = "validateBundleModules") =>
    /\ Len(diagnostics) = Len(atEntry.diagnostics) + Len(MissingTagRefs)
    /\ SubSeq(diagnostics, 1, Len(atEntry.diagnostics)) = atEntry.diagnostics
    /\ \A k \in 1..Len(MissingTagRefs) :
         /\ diagnostics[Len(atEntry.diagnostics) + k].level = "error"
         /\ diagnostics[Len(atEntry.diagnostics) + k].messageText[2] = MissingTagRefs[k]
    /\ \A tag \in Range(TagRefs(bundles)) : HasModule(tag) => HoldersOf(tag) # {}

\* a declaration starts with a tag that matches nothing and goes on with one
\* that matches, a later declaration resolves too, and a diagnostic was there
\* before
C5_Witness ==
  /\ pc = "validateBundleModules"
  /\ Len(atEntry.diagnostics) = 1
  /\ Len(bundles) = 2
  /\ Len(bundles[1].components) = 2
  /\ ~HasModule(bundles[1].components[1])
  /\ HasModule(bundles[1].components[2])
  /\ Len(atEntry.preliminary) = 2
  /\ Len(diagnostics) = 2

\* the modules a declaration resolves to: its matching tags, in declared order
ResolvedModules(decl) ==
  LET tags == SelectSeq(decl.components, HasModule)
  IN [n \in 1..Len(tags) |->
        CHOOSE m \in Range(moduleFiles) : m.cmpMeta.tagNameMeta = tags[n]]

\* C6: getManifestBundles returns, in declaration order, one bundle per
\* declaration that resolves to at least one module; the bundle's modules are
\* the declaration's tags with the non-matching ones removed, in declared
\* order. Empty declarations and declarations none of whose tags resolve
\* produce no bundle.
C6_ResolvedInDeclaredOrder ==
  Resolved =>
    [b \in 1..Len(atEntry.preliminary) |-> atEntry.preliminary[b].moduleFiles]
      = SelectSeq([j \in 1..Len(bundles) |-> ResolvedModules(bundles[j])],
                  LAMBDA mfs : Len(mfs) >= 1)

\* an empty declaration is followed by one naming "ab", a missing tag and "a":
\* the one bundle holds ab then a
C6_Witness ==
  /\ Resolved
  /\ Len(bundles) = 2
  /\ bundles[1].components = <<>>
  /\ Len(bundles[2].components) = 3
  /\ Len(atEntry.preliminary) = 1
  /\ TagsOf(atEntry.preliminary[1].moduleFiles) = << <<1, 2>>, <<1>> >>

\* how many modules of the list have the mode
Votes(mfs, enc) ==
  Cardinality({ n \in DOMAIN mfs : mfs[n].cmpMeta.encapsulation = enc })

\* the mode with the most votes, None before Scoped before Shadow on a tie
MajorityMode(mfs) ==
  LET most == CHOOSE v \in { Votes(mfs, e) : e \in Encapsulations } :
                \A e \in Encapsulations : Votes(mfs, e) <= v
  IN IF Votes(mfs, "NoEncapsulation") = most THEN "NoEncapsulation"
     ELSE IF Votes(mfs, "ScopedCss") = most THEN "ScopedCss"
     ELSE "ShadowDom"

\* C7: findPrimaryEncapsulation returns null for the empty list, and for any
\* other list the mode most modules have (styled or not), None winning over
\* Scoped and Scoped over Shadow when the largest count is shared.
C7_PrimaryIsMajority ==
  pc = "findPrimaryEncapsulation returned" =>
    callRet = IF callArg = <<>> THEN "null" ELSE MajorityMode(callArg)

\* Scoped and Shadow have two votes each, one of them unstyled: Scoped is returned
C7_Witness ==
  /\ pc = "findPrimaryEncapsulation returned"
  /\ Votes(callArg, "ScopedCss") = 2
  /\ Votes(callArg, "ShadowDom") = 2
  /\ \E n \in DOMAIN callArg : ~callArg[n].cmpMeta.stylesMeta
  /\ callRet = "ScopedCss"

\* C8: two declaration lists that differ only in the order of the
\* declarations, or of the tags inside a declaration, leave the same sequence
\* of bundles with the same module order after resolution, validation and
\* sortBundles.
C8_OrderIndependent ==
  pc = "bundle twice returned" => callRet[1] = callRet[2]

\* s is in ascending order of tag name
Ascending(tags) ==
  \A n \in 1..(Len(tags) - 1) : ~StrLess(tags[n + 1], tags[n])

\* the two module lists hold the same modules, each as often
SameModules(a, b) ==
  /\ Len(a) = Len(b)
  /\ \A m \in Range(a) \cup Range(b) :
       Cardinality({ n \in DOMAIN a : a[n] = m })
         = Cardinality({ n \in DOMAIN b : b[n] = m })

\* C9: sortBundles returns the modules of every bundle in ascending tag order
\* and the bundles in ascending order of their first module's tag; it returns
\* as many bundles as it was given, and every bundle (the same object) holds
\* exactly the modules it held before.
C9_SortedRearrangement ==
  pc \in {"sortBundles returned", "sortBundles returned again"} =>
    /\ \A b \in DOMAIN callRet : Ascending(TagsOf(callRet[b].moduleFiles))
    /\ Ascending([b \in DOMAIN callRet |-> callRet[b].moduleFiles[1].cmpMeta.tagNameMeta])
    /\ Len(callRet) = Len(callArg)
    /\ \A a \in DOMAIN callArg :
         \E b \in DOMAIN callRet :
           /\ callRet[b].id = callArg[a].id
           /\ SameModules(callRet[b].moduleFiles, callArg[a].moduleFiles)
           /\ \A c \in DOMAIN callRet : callRet[c].id = callArg[a].id => c = b

\* three bundles came back in another order than given, one of them with its
\* modules reordered
C9_Witness ==
  /\ pc = "sortBundles returned"
  /\ Len(callRet) = 3
  /\ callRet[1].id = 3
  /\ callRet[3].id = 1
  /\ \E a \in DOMAIN callArg : \E b \in DOMAIN callRet :
       /\ callRet[b].id = callArg[a].id
       /\ callRet[b].moduleFiles # callArg[a].moduleFiles

\* C10: sortBundles applied to a list it has returned gives back the same
\* list: the same bundles in the same order with the same module order.
C10_SortIdempotent ==
  pc = "sortBundles returned again" => callRet = callArg

\* the list given first was not sorted, two different bundles of it share
\* their first tag and one bundle holds a tag twice
C10_Witness ==
  /\ pc = "sortBundles returned again"
  /\ atEntry.preliminary # callArg
  /\ \E a, b \in DOMAIN callRet :
       /\ a # b
       /\ callRet[a].moduleFiles # callRet[b].moduleFiles
       /\ callRet[a].moduleFiles[1] = callRet[b].moduleFiles[1]
  /\ \E a \in DOMAIN callRet :
       \E i, j \in DOMAIN callRet[a].moduleFiles :
         i # j /\ callRet[a].moduleFiles[i] = callRet[a].moduleFiles[j]


\* the collaborator has been invoked by bundle()
Invoked(step) == \E i \in DOMAIN calls : calls[i] = step

\* C11: generateBundles is invoked only after both bundleStyles and
\* bundleModules have completed successfully; it is never invoked while
\* one of them is still pending or after one of them has failed.
C11_GenerateAfterBoth ==
  Invoked("generateBundles") => styles = "fulfilled" /\ modules = "fulfilled"

\* generateBundles has run, bundleModules having written the text of a bundle
C11_Witness ==
  /\ pc = "finished"
  /\ Invoked("generateBundles")
  /\ caught = "none"
  /\ Len(manifestBundles) >= 1
  /\ manifestBundles[1].compiledModuleText = "compiled"

\* C12: when ctx.diagnostics holds an error at entry, bundle() completes
\* without changing ctx.manifestBundles, without appending a diagnostic, and
\* without running resolution, validation or sorting or invoking
\* upgradeDependentComponents, bundleStyles, bundleModules or generateBundles.
C12_PriorErrorShortCircuits ==
  hasError(atEntry.diagnostics) =>
    /\ pc \in {"bundle", "returned"}
    /\ manifestBundles = atEntry.manifestBundles
    /\ diagnostics = atEntry.diagnostics
    /\ validatedBundles = <<>>
    /\ nextId = 1
    /\ TailIdle

\* bundle() has returned at once, though a declaration names a component
\* and another names a tag no component has
C12_Witness ==
  /\ pc = "returned"
  /\ hasError(atEntry.diagnostics)
  /\ \E j \in DOMAIN bundles : \E k \in DOMAIN bundles[j].components :
       HasModule(bundles[j].components[k])
  /\ \E j \in DOMAIN bundles : \E k \in DOMAIN bundles[j].components :
       ~HasModule(bundles[j].components[k])

\* the steps of the phase that have raised an exception
Raised ==
  { step \in {"sortBundles", "upgradeDependentComponents", "generateBundles"} :
      caught = step }
  \cup { step \in {"bundleStyles"} : styles = "rejected" }
  \cup { step \in {"bundleModules"} : modules = "rejected" }

\* the steps whose exception the diagnostics report
Reported ==
  { diagnostics[d].messageText[1] :
      d \in { e \in DOMAIN diagnostics : diagnostics[e].header = "build error" } }

\* what the catch block of bundle() does with the one exception it receives:
\* one error diagnostic after the ones resolution left, no later step run
CatchBlockReports ==
  /\ (pc = "finished" /\ promiseAll.state = "rejected") =>
       caught = promiseAll.reason
  /\ caught # "none" =>
       /\ pc = "finished"
       /\ Len(diagnostics) = Len(atEntry.diagnostics) + Len(MissingTagRefs) + 1
       /\ diagnostics[Len(diagnostics)].level = "error"
       /\ Reported = {caught}
       /\ \A k \in 1..Len(MissingTagRefs) :
            diagnostics[Len(atEntry.diagnostics) + k].messageText[2] = MissingTagRefs[k]
       /\ caught # "generateBundles" => ~Invoked("generateBundles")
       /\ caught = "upgradeDependentComponents" =>
            calls = <<"upgradeDependentComponents">>
       /\ caught = "sortBundles" => calls = <<>>

\* C13: an exception raised by a step of bundle() does not leave bundle():
\* once bundle() has completed, every step that raised an exception has its
\* error diagnostic in ctx.diagnostics, and no step after a failing one
\* (generateBundles in particular) has been run.
C13_ExceptionsBecomeDiagnostics ==
  pc = "finished" =>
    /\ Raised \subseteq Reported
    /\ (Raised # {} /\ Raised # {"generateBundles"}) => ~Invoked("generateBundles")

\* the final bundles that hold the module of the tag
FinalHoldersOf(tag) ==
  { b \in DOMAIN manifestBundles :
      tag \in Range(TagsOf(manifestBundles[b].moduleFiles)) }

\* C14: the diagnostics are looked at only once, at entry: bundle() returns
\* early only on an error that was there before it, and whenever it completes
\* without a step having thrown, missing-tag errors or not, it has invoked
\* upgradeDependentComponents, bundleStyles, bundleModules and generateBundles
\* in this order, on the validated and sorted bundles of the tags that did
\* resolve, both collaborators having completed.
C14_MissingTagDoesNotHalt ==
  /\ pc = "returned" => hasError(atEntry.diagnostics)
  /\ (pc = "finished" /\ caught = "none") =>
       /\ calls = Collaborators
       /\ styles = "fulfilled" /\ modules = "fulfilled"
       /\ Len(diagnostics) = Len(atEntry.diagnostics) + Len(MissingTagRefs)
       /\ \A tag \in Range(TagRefs(bundles)) :
            HasModule(tag) => HoldersOf(tag) # {} /\ FinalHoldersOf(tag) # {}
       /\ manifestBundles = WriteModuleText(sortBundles(atEntry.validated))
       /\ \A b \in DOMAIN manifestBundles :
            /\ manifestBundles[b].moduleFiles # <<>>
            /\ SameModeWhereStyled(manifestBundles[b])
            /\ Ascending(TagsOf(manifestBundles[b].moduleFiles))

\* resolution has reported a missing tag during this bundle(), and the phase
\* has still gone through generateBundles with the bundles that did resolve
C14_Witness ==
  /\ pc = "finished"
  /\ caught = "none"
  /\ ~hasError(atEntry.diagnostics)
  /\ Len(MissingTagRefs) >= 1
  /\ hasError(diagnostics)
  /\ Len(manifestBundles) >= 1
  /\ Invoked("generateBundles")

\* the module belongs to the primary group: it has the primary mode or no styles
InPrimaryGroup(m, primary) ==
  m.cmpMeta.encapsulation = primary \/ ~m.cmpMeta.stylesMeta

\* the primary group of the modules, in their order
PrimaryGroup(mfs, primary) ==
  SelectSeq(mfs, LAMBDA m : InPrimaryGroup(m, primary))

\* the overflow group of a mode: the styled modules of that mode when it is
\* not the primary one, in their order
OverflowGroup(mfs, primary, enc) ==
  SelectSeq(mfs, LAMBDA m : /\ ~InPrimaryGroup(m, primary)
                            /\ m.cmpMeta.encapsulation = enc)

\* the overflow groups that are not empty, scoped first, then shadow, then plain
OverflowGroups(mfs, primary) ==
  SelectSeq(<<OverflowGroup(mfs, primary, "ScopedCss"),
              OverflowGroup(mfs, primary, "ShadowDom"),
              OverflowGroup(mfs, primary, "NoEncapsulation")>>,
            LAMBDA g : g # <<>>)

\* the original object with the primary group, then a fresh object, numbered
\* from id0, for each of the groups
SplitBundles(mb, primaryGroup, groups, id0) ==
  <<[id |-> mb.id, moduleFiles |-> primaryGroup,
     compiledModuleText |-> mb.compiledModuleText]>>
  \o [k \in 1..Len(groups) |->
        [id |-> id0 + k - 1, moduleFiles |-> groups[k], compiledModuleText |-> ""]]

\* what one call is to append for the bundle
ExpectedBundles(mb, id0) ==
  IF Len(mb.moduleFiles) = 0 THEN <<>>
  ELSE IF Len(mb.moduleFiles) = 1 THEN <<mb>>
  ELSE With(MajorityMode(mb.moduleFiles), LAMBDA primary :
         With(OverflowGroups(mb.moduleFiles, primary), LAMBDA groups :
           SplitBundles(mb, PrimaryGroup(mb.moduleFiles, primary), groups, id0)))

\* C15: one call of validateManifestBundle leaves the bundles already in
\* the accumulator as they are and appends, for a bundle of two or more
\* modules, the original bundle object holding the primary group (the modules
\* of the primary mode and every module without styles), then one new bundle
\* per non-empty overflow group in the order scoped, shadow, plain, the
\* modules of each group in the order they had; a bundle of one module is
\* appended as it is, and a bundle of no module appends nothing.
C15_AppendedInOrder ==
  [][(pc = "validateBundleModules" /\ idx <= Len(manifestBundles)) =>
       validatedBundles' =
         validatedBundles \o ExpectedBundles(manifestBundles[idx], nextId)]_vars

\* a bundle of a Shadow, a Scoped and a third module, in this order, has
\* become three bundles: the original object with the primary group, then a
\* new Scoped bundle, then a new Shadow bundle
C15_Witness ==
  /\ pc = "validateBundleModules"
  /\ idx = 2
  /\ Len(atEntry.preliminary) = 1
  /\ Len(atEntry.preliminary[1].moduleFiles) = 3
  /\ atEntry.preliminary[1].moduleFiles[1].cmpMeta.encapsulation = "ShadowDom"
  /\ atEntry.preliminary[1].moduleFiles[2].cmpMeta.encapsulation = "ScopedCss"
  /\ Len(validatedBundles) = 3
  /\ validatedBundles[1].id = atEntry.preliminary[1].id
  /\ validatedBundles[2].id # atEntry.preliminary[1].id
  /\ validatedBundles[2].moduleFiles[1].cmpMeta.encapsulation = "ScopedCss"
  /\ validatedBundles[3].moduleFiles[1].cmpMeta.encapsulation = "ShadowDom"

\* C16: when bundle() has completed (time span finished, promise resolved),
\* neither bundleStyles nor bundleModules is still pending, whichever of the
\* two failed or succeeded first.
C16_NoCollaboratorPendingAtEnd ==
  pc = "finished" => styles # "pending" /\ modules # "pending"


====
